---------------------------- MODULE Spec2Model ----------------------------
(***************************************************************************)
(* Model of src/utils.c of gert: the error bridge bail_if / bail_if_null   *)
(* and the revision resolution resolve_refish / ref_to_commit.             *)
(*                                                                         *)
(* A revision string is a sequence of tokens: a reference name or an       *)
(* object id is one or more name tokens, a revision suffix ("^", "~1",     *)
(* "^{tree}", ...) is one token.  The libgit2 calls the code makes are     *)
(* operators named after the library functions; they are computed over an  *)
(* object store (odb) and a reference table (refs).                        *)
(***************************************************************************)
EXTENDS Naturals, Integers, Sequences, FiniteSets, TLC

VARIABLES
    refs,       \* reference table of the repository: full name -> object id
    odb,        \* object store of the repository: the ids of the stored objects
    lookupErr,  \* return code git_commit_lookup gives in this environment
    rRaises,    \* whether evaluating raise_libgit2_error signals an R error
    lastErr,    \* libgit2's last-error record (giterr_last), set = FALSE is NULL
    pc,         \* position in the running call
    entry,      \* function the caller invoked
    string,     \* SEXP argument of resolve_refish / ref_to_commit
    err,        \* int argument of bail_if
    ptr,        \* void *ptr argument of bail_if_null
    what,       \* const char *what argument of bail_if
    ref,        \* local git_reference *ref (<<>> is NULL)
    obj,        \* local git_object *obj ("none" is NULL)
    peeled,     \* local git_object *peeled
    commit,     \* local git_commit *commit of ref_to_commit
    acq,        \* per handle: how many times the library handed it out
    rel,        \* per handle: how many times it was freed
    calls,      \* library calls made by the running call, in order
    revision,   \* outcome of resolve_refish inside the running call
    result,     \* outcome of the running call
    nullRead,   \* a field of a NULL git_error was read
    snap,       \* repository as it was when the running call started
    prev,       \* first completed resolution: its argument and outcome
    ncalls      \* number of completed calls

vars == <<refs, odb, lookupErr, rRaises, lastErr, pc, entry, string, err, ptr, what,
          ref, obj, peeled, commit, acq, rel, calls, revision, result,
          nullRead, snap, prev, ncalls>>

-----------------------------------------------------------------------------
(* Bounds *)

MaxCalls == 2

-----------------------------------------------------------------------------
(* The object store.  c2 is a commit with parent c1; a1 is an annotated    *)
(* tag of c2, a2 a tag of the tag a1, a3 a tag of the tree t1.             *)

ObjIds == {"c1", "c2", "t1", "b1", "a1", "a2", "a3"}

git_object_type(o) ==
    CASE o \in {"c1", "c2"}       -> "commit"
      [] o = "t1"                 -> "tree"
      [] o = "b1"                 -> "blob"
      [] o \in {"a1", "a2", "a3"} -> "tag"
      [] OTHER                    -> "invalid"

TagTarget(o) ==
    CASE o = "a1" -> "c2"
      [] o = "a2" -> "a1"
      [] o = "a3" -> "t1"
      [] OTHER    -> "none"

CommitTree(o) == IF git_object_type(o) = "commit" THEN "t1" ELSE "none"

CommitParents(o) == IF o = "c2" THEN <<"c1">> ELSE <<>>


-----------------------------------------------------------------------------
(* The reference names a repository of the model can hold, and the strings *)
(* a caller can pass.                                                      *)

HeadsMain == <<"refs/heads/", "main">>
TagsMain  == <<"refs/tags/", "main">>
TagsV1    == <<"refs/tags/", "v1">>
TagsHex   == <<"refs/tags/", "c1">>

RefNames == {HeadsMain, TagsMain, TagsV1, TagsHex}

NoRef == <<>>

SuffixTokens == {"^", "^2", "~1", "^{tree}", "^{commit}", "^q"}

KnownSuffixes == {"^", "^2", "~1", "^{tree}", "^{commit}"}

Exprs ==
    { <<"main">>, HeadsMain, TagsMain, <<"v1">>, <<"c1">>, TagsHex,
      <<"a2">>, <<"a3">>, <<"b1">>, <<"nope">>,
      <<"c2", "^{tree}">>, <<"c2", "^">>, <<"c2", "^2">>,
      <<"main", "~1">>, <<"v1", "^{commit}">>, <<"c2", "^q">> }

\* The SEXP values passed as the reference: a non-character value, a
\* character vector of length 0, and character vectors of length 1.
Sexps ==
    { [isString |-> FALSE, elts |-> <<>>], [isString |-> TRUE, elts |-> <<>>] }
    \cup { [isString |-> TRUE, elts |-> <<e>>] : e \in Exprs }

-----------------------------------------------------------------------------
(* libgit2 as the code uses it *)

GIT_OK == 0

GIT_OBJECT_COMMIT == "commit"

\* dereference_object of git_object_peel: a tag gives its target, a commit
\* its tree, anything else cannot be dereferenced.
Dereference(o) ==
    CASE git_object_type(o) = "tag"    -> TagTarget(o)
      [] git_object_type(o) = "commit" -> CommitTree(o)
      [] OTHER                         -> "none"

RECURSIVE PeelWalk(_, _)
PeelWalk(o, target) ==
    LET d == Dereference(o) IN
    IF d = "none" THEN "none"
    ELSE IF git_object_type(d) = target THEN d
    ELSE PeelWalk(d, target)

\* git_object_peel(&peeled, o, target): the peeled object, "none" on error.
git_object_peel(o, target) ==
    IF git_object_type(o) = target THEN o ELSE PeelWalk(o, target)

\* A reference name must not hold revision syntax (git_reference__name_is_valid).
IsValidRefName(name) ==
    /\ name # <<>>
    /\ \A i \in 1..Len(name) : name[i] \notin SuffixTokens

DwimFormats == <<"", "refs/", "refs/tags/", "refs/heads/", "refs/remotes/">>

DwimCandidate(i, str) ==
    IF DwimFormats[i] = "" THEN str ELSE <<DwimFormats[i]>> \o str

DwimFound(rs, i, str) ==
    /\ IsValidRefName(DwimCandidate(i, str))
    /\ DwimCandidate(i, str) \in RefNames
    /\ rs[DwimCandidate(i, str)] # "none"

\* git_reference_dwim(&ref, repo, str): the first format under which str
\* names a reference, NoRef when none does.
git_reference_dwim(rs, str) ==
    IF \E i \in 1..Len(DwimFormats) : DwimFound(rs, i, str)
    THEN DwimCandidate(CHOOSE i \in 1..Len(DwimFormats) :
                          /\ DwimFound(rs, i, str)
                          /\ \A j \in 1..(i-1) : ~DwimFound(rs, j, str), str)
    ELSE NoRef

\* git_reference_peel(&obj, ref, type)
git_reference_peel(rs, r, target) == git_object_peel(rs[r], target)

\* The base of a revision string: its tokens before the first suffix.
BaseLen(str) ==
    IF \E i \in 1..Len(str) : str[i] \in SuffixTokens
    THEN (CHOOSE i \in 1..Len(str) :
             /\ str[i] \in SuffixTokens
             /\ \A j \in 1..(i-1) : str[j] \notin SuffixTokens) - 1
    ELSE Len(str)

\* revparse_lookup_object: a full object id, then a reference by dwim.
RevparseLookup(rs, db, base) ==
    IF Len(base) = 1 /\ base[1] \in db THEN base[1]
    ELSE IF git_reference_dwim(rs, base) # NoRef
         THEN rs[git_reference_dwim(rs, base)]
         ELSE "none"

NthParent(o, n) ==
    LET c == IF o = "none" THEN "none" ELSE git_object_peel(o, "commit") IN
    IF c = "none" \/ Len(CommitParents(c)) < n THEN "none"
    ELSE CommitParents(c)[n]

ApplySuffix(o, op) ==
    CASE o = "none"          -> "none"
      [] op \in {"^", "~1"}  -> NthParent(o, 1)
      [] op = "^2"           -> NthParent(o, 2)
      [] op = "^{tree}"      -> git_object_peel(o, "tree")
      [] op = "^{commit}"    -> git_object_peel(o, "commit")
      [] OTHER               -> "none"

RECURSIVE ApplySuffixes(_, _)
ApplySuffixes(o, ops) ==
    IF ops = <<>> THEN o
    ELSE ApplySuffixes(ApplySuffix(o, Head(ops)), Tail(ops))

\* git_revparse_single(&obj, repo, str): the object the revision string
\* designates, "none" on any error (not found, bad syntax, no such parent).
git_revparse_single(rs, db, str) ==
    LET n    == BaseLen(str)
        base == SubSeq(str, 1, n)
        ops  == SubSeq(str, n + 1, Len(str))
    IN  IF n = 0 \/ \E i \in 1..Len(ops) : ops[i] \notin KnownSuffixes
        THEN "none"
        ELSE ApplySuffixes(RevparseLookup(rs, db, base), ops)


-----------------------------------------------------------------------------
(* Values of the state *)

Slots == {"ref", "obj", "peeled", "commit"}

NoHandles == [h \in Slots |-> 0]

NoSexp == [isString |-> FALSE, elts |-> <<>>]

NoError == [set |-> FALSE, klass |-> "none", message |-> "none"]

\* The record giterr_last() returns after a library call failed.
LibError(klass, message) == [set |-> TRUE, klass |-> klass, message |-> message]

NoResult ==
    [status |-> "none", obj |-> "none", handle |-> "none", error |-> "none",
     type |-> "none", str |-> <<>>, code |-> 0, klass |-> "none",
     message |-> "none", where |-> "none"]

\* A normal return handing the caller object o held in handle slot h.
Returned(o, h) == [NoResult EXCEPT !.status = "returned", !.obj = o, !.handle = h]

\* Rf_error("Reference is not a string")
NotStringError == [NoResult EXCEPT !.status = "error", !.error = "NotString"]

\* The not-found error without the string that was looked for.
NotFoundErrorNoStr(str) ==
    [NoResult EXCEPT !.status = "error", !.error = "NotFound"]

\* Rf_error("Failed to find git reference '%s'", str)
NotFoundError(str) ==
    [NoResult EXCEPT !.status = "error", !.error = "NotFound", !.str = str]

\* The wrong-kind error naming the kind asked for instead of the kind found.
WrongKindErrorTarget(o, str) ==
    [NoResult EXCEPT !.status = "error", !.error = "WrongKind",
                     !.type = GIT_OBJECT_COMMIT, !.str = str]

\* Rf_error("Reference is a %s and does not point to a commit: %s", type, str)
WrongKindError(o, str) ==
    [NoResult EXCEPT !.status = "error", !.error = "WrongKind",
                     !.type = git_object_type(o), !.str = str]

\* The condition raise_libgit2_error signals: code, message, where, class.
Libgit2Error(code, info, where) ==
    [NoResult EXCEPT !.status = "error", !.error = "libgit2_error",
                     !.code = code, !.where = where,
                     !.klass = IF info.set THEN info.klass ELSE "NA",
                     !.message = IF info.set THEN info.message
                                 ELSE "Unknown error message"]

\* Rf_error("Failed to raise gert S3 error (%s)", info->message)
FailedToRaiseError(message) ==
    [NoResult EXCEPT !.status = "error", !.error = "FailedToRaise",
                     !.message = message]

\* What reading info->message of a NULL info can end in.
NullReadOutcomes ==
    { [NoResult EXCEPT !.status = "crash"], FailedToRaiseError("garbage") }

NoPrev == [set |-> FALSE, entry |-> "none", string |-> NoSexp, result |-> NoResult]

\* str = CHAR(STRING_ELT(string, 0))
StrOf(sexp) == sexp.elts[1]


-----------------------------------------------------------------------------
(* The initial state: a repository, an environment, no call running *)

RefTargets(name) ==
    CASE name = HeadsMain -> {"none", "c1"}
      [] name = TagsMain  -> {"none", "a2"}
      [] name = TagsV1    -> {"none", "a3", "b1"}
      [] name = TagsHex   -> {"none", "c2", "b1"}

Init ==
    /\ refs \in {f \in [RefNames -> ObjIds \cup {"none"}] :
                    \A n \in RefNames : f[n] \in RefTargets(n)}
    /\ odb = ObjIds
    /\ lookupErr \in {0, -1}
    /\ rRaises \in BOOLEAN
    /\ lastErr = NoError
    /\ pc = "idle"
    /\ entry = "none"
    /\ string = NoSexp
    /\ err = 0
    /\ ptr = "valid"
    /\ what = "none"
    /\ ref = NoRef
    /\ obj = "none"
    /\ peeled = "none"
    /\ commit = "none"
    /\ acq = NoHandles
    /\ rel = NoHandles
    /\ calls = <<>>
    /\ revision = NoResult
    /\ result = NoResult
    /\ nullRead = FALSE
    /\ snap = [refs |-> refs, odb |-> odb]
    /\ prev = NoPrev
    /\ ncalls = 0

repoVars == <<refs, odb>>
envVars == <<lookupErr, rRaises>>
argVars == <<entry, string, err, ptr, what>>
localVars == <<ref, obj, peeled, commit>>
handleVars == <<acq, rel>>
histVars == <<snap, prev, ncalls>>

-----------------------------------------------------------------------------
(* Callers *)

Begin(fn, sexp, e, p, w, start) ==
    /\ pc = "idle"
    /\ ncalls < MaxCalls
    /\ entry' = fn
    /\ string' = sexp
    /\ err' = e
    /\ ptr' = p
    /\ what' = w
    /\ pc' = start
    /\ snap' = [refs |-> refs, odb |-> odb]
    /\ UNCHANGED <<repoVars, envVars, lastErr, localVars, handleVars, calls,
                   revision, result, nullRead, prev, ncalls>>

Call_resolve_refish ==
    \E sexp \in Sexps : Begin("resolve_refish", sexp, 0, "valid", "none", "rr_check")

\* ref_to_commit begins by calling resolve_refish(ref, repo).
Call_ref_to_commit ==
    \E sexp \in Sexps : Begin("ref_to_commit", sexp, 0, "valid", "none", "rr_check")

Call_bail_if ==
    \E e \in {0, -1, -3} : Begin("bail_if", NoSexp, e, "valid", "caller", "bail_if")

Call_bail_if_null ==
    \E p \in {"NULL", "valid"} :
        Begin("bail_if_null", NoSexp, 0, p, "caller", "bail_if_null")

-----------------------------------------------------------------------------
(* resolve_refish *)

\* if(!Rf_isString(string) || !Rf_length(string))
IsRefString(sexp) == sexp.isString /\ Len(sexp.elts) > 0

\* The revision parse tried before the literal name.
FirstLookupRevparse == "revparse"

\* The first library call resolve_refish makes on a string.
FirstLookup == "dwim"

\* Where a return or an error of resolve_refish leads: back to the caller
\* of resolve_refish, which for ref_to_commit is its commit lookup.
ResolveExit(res) ==
    /\ revision' = res
    /\ IF entry = "ref_to_commit" /\ res.status = "returned"
       THEN pc' = "commit_lookup" /\ result' = result
       ELSE pc' = "done" /\ result' = res

rr_check ==
    /\ pc = "rr_check"
    /\ calls' = calls
    /\ IF IsRefString(string)
       THEN /\ pc' = FirstLookup
            /\ UNCHANGED <<revision, result>>
       ELSE ResolveExit(NotStringError)
    /\ UNCHANGED <<repoVars, envVars, lastErr, argVars, localVars, handleVars,
                   nullRead, histVars>>

\* if(git_reference_dwim(&ref, repo, str) == GIT_OK)
DwimNext(r) == IF r # NoRef THEN "ref_peel" ELSE "revparse"

dwim ==
    /\ pc = "dwim"
    /\ LET r == git_reference_dwim(refs, StrOf(string)) IN
        /\ calls' = Append(calls, "git_reference_dwim")
        /\ ref' = r
        /\ acq' = IF r # NoRef THEN [acq EXCEPT !["ref"] = @ + 1] ELSE acq
        /\ lastErr' = IF r # NoRef THEN lastErr
                      ELSE LibError("GITERR_REFERENCE", "no reference found")
        /\ pc' = DwimNext(r)
    /\ UNCHANGED <<repoVars, envVars, argVars, obj, peeled, commit, rel,
                   revision, result, nullRead, histVars>>

\* The fast path peeling to the tag kind.
RefPeelTargetTag == "tag"

\* The kind the fast path peels the reference to.
RefPeelTarget == GIT_OBJECT_COMMIT

\* git_reference_delete(ref) in the place of git_reference_free(ref).
git_reference_delete(rs, r) == [rs EXCEPT ![r] = "none"]

\* git_reference_free(ref) releases the handle and leaves the reference
\* of the repository as it is.
git_reference_free(rs, r) == rs

\* A failed peel of the reference ending the resolution.
RefPeelNextStop(o) == IF o # "none" THEN "return" ELSE "done"

\* Lines 41-45: a successful peel returns, a failed one falls through.
RefPeelNext(o) == IF o # "none" THEN "return" ELSE "revparse"

ref_peel ==
    /\ pc = "ref_peel"
    /\ LET o == git_reference_peel(refs, ref, RefPeelTarget) IN
        /\ calls' = Append(calls, "git_reference_peel")
        /\ obj' = o
        /\ IF o # "none"
           THEN /\ acq' = [acq EXCEPT !["obj"] = @ + 1]
                /\ rel' = [rel EXCEPT !["ref"] = @ + 1]
                /\ refs' = git_reference_free(refs, ref)
                /\ lastErr' = lastErr
           ELSE /\ UNCHANGED <<acq, rel, refs>>
                /\ lastErr' = LibError("GITERR_OBJECT", "cannot peel")
        /\ IF RefPeelNext(o) = "return"
           THEN ResolveExit(Returned(o, "obj"))
           ELSE /\ pc' = RefPeelNext(o)
                /\ UNCHANGED <<revision, result>>
    /\ UNCHANGED <<odb, envVars, argVars, ref, peeled, commit, nullRead, histVars>>

\* Lines 46, 57-58
revparse ==
    /\ pc = "revparse"
    /\ LET o == git_revparse_single(refs, odb, StrOf(string)) IN
        /\ calls' = Append(calls, "git_revparse_single")
        /\ obj' = o
        /\ IF o # "none"
           THEN /\ acq' = [acq EXCEPT !["obj"] = @ + 1]
                /\ lastErr' = lastErr
                /\ pc' = "type_check"
                /\ UNCHANGED <<revision, result>>
           ELSE /\ acq' = acq
                /\ lastErr' = LibError("GITERR_REFERENCE", "revspec not found")
                /\ ResolveExit(NotFoundError(StrOf(string)))
    /\ UNCHANGED <<repoVars, envVars, argVars, ref, peeled, commit, rel,
                   nullRead, histVars>>

\* The kind test left out: whatever the parse gave is returned.
IsCommitAlways(o) == TRUE

\* if(git_object_type(obj) == GIT_OBJECT_COMMIT) return obj;
IsCommit(o) == git_object_type(o) = GIT_OBJECT_COMMIT

type_check ==
    /\ pc = "type_check"
    /\ IF IsCommit(obj)
       THEN ResolveExit(Returned(obj, "obj"))
       ELSE /\ pc' = "obj_peel"
            /\ UNCHANGED <<revision, result>>
    /\ UNCHANGED <<repoVars, envVars, lastErr, argVars, localVars, handleVars,
                   calls, nullRead, histVars>>

\* The slow path peeling to the tree kind.
ObjPeelTargetTree == "tree"

\* The kind the slow path peels the parsed object to.
ObjPeelTarget == GIT_OBJECT_COMMIT

\* Lines 49-56
obj_peel ==
    /\ pc = "obj_peel"
    /\ LET p == git_object_peel(obj, ObjPeelTarget) IN
        /\ calls' = Append(calls, "git_object_peel")
        /\ peeled' = p
        /\ rel' = [rel EXCEPT !["obj"] = @ + 1]
        /\ IF p # "none"
           THEN /\ acq' = [acq EXCEPT !["peeled"] = @ + 1]
                /\ lastErr' = lastErr
                /\ ResolveExit(Returned(p, "peeled"))
           ELSE /\ acq' = acq
                /\ lastErr' = LibError("GITERR_OBJECT", "cannot peel")
                /\ ResolveExit(WrongKindError(obj, StrOf(string)))
    /\ UNCHANGED <<repoVars, envVars, argVars, ref, obj, commit, nullRead, histVars>>


-----------------------------------------------------------------------------
(* ref_to_commit, after resolve_refish returned *)

\* bail_if(git_commit_lookup(&commit, repo, git_object_id(revision)), ...):
\* the lookup, then the call of bail_if with its return code.
commit_lookup ==
    /\ pc = "commit_lookup"
    /\ calls' = Append(calls, "git_commit_lookup")
    /\ IF lookupErr = GIT_OK
       THEN /\ commit' = revision.obj
            /\ acq' = [acq EXCEPT !["commit"] = @ + 1]
            /\ lastErr' = lastErr
       ELSE /\ UNCHANGED <<commit, acq>>
            /\ lastErr' = LibError("GITERR_ODB", "object not found")
    /\ err' = lookupErr
    /\ what' = "git_commit_lookup"
    /\ pc' = "bail_if"
    /\ UNCHANGED <<repoVars, envVars, entry, string, ptr, ref, obj, peeled, rel,
                   revision, result, nullRead, histVars>>

\* git_object_free(revision); return commit;
free_revision ==
    /\ pc = "free_revision"
    /\ rel' = [rel EXCEPT ![revision.handle] = @ + 1]
    /\ result' = Returned(commit, "commit")
    /\ pc' = "done"
    /\ UNCHANGED <<repoVars, envVars, lastErr, argVars, localVars, acq, calls,
                   revision, nullRead, histVars>>

-----------------------------------------------------------------------------
(* bail_if and bail_if_null *)

\* if(!ptr) bail_if(-1, what);
bail_if_null ==
    /\ pc = "bail_if_null"
    /\ IF ptr = "NULL"
       THEN /\ err' = -1
            /\ pc' = "bail_if"
            /\ result' = result
       ELSE /\ err' = err
            /\ pc' = "done"
            /\ result' = Returned("none", "none")
    /\ UNCHANGED <<repoVars, envVars, lastErr, entry, string, ptr, what,
                   localVars, handleVars, calls, revision, nullRead, histVars>>

\* if (err) { ... }
BailRaises(e) == e # 0

bail_if ==
    /\ pc = "bail_if"
    /\ IF BailRaises(err)
       THEN /\ pc' = "bail_raise"
            /\ result' = result
       ELSE IF entry = "ref_to_commit"
            THEN /\ pc' = "free_revision"
                 /\ result' = result
            ELSE /\ pc' = "done"
                 /\ result' = Returned("none", "none")
    /\ UNCHANGED <<repoVars, envVars, lastErr, argVars, localVars, handleVars,
                   calls, revision, nullRead, histVars>>

\* Lines 5-12: read giterr_last(), build the call of raise_libgit2_error
\* and evaluate it.  The evaluation leaves bail_if by an R error when the
\* R function signals one; otherwise it returns and line 13 is reached.
bail_raise ==
    /\ pc = "bail_raise"
    /\ IF rRaises
       THEN /\ result' = Libgit2Error(err, lastErr, what)
            /\ pc' = "done"
       ELSE /\ result' = result
            /\ pc' = "bail_fallback"
    /\ UNCHANGED <<repoVars, envVars, lastErr, argVars, localVars, handleVars,
                   calls, revision, nullRead, histVars>>

\* Lines 13-14: Rf_error("Failed to raise gert S3 error (%s)", info->message)
bail_fallback ==
    /\ pc = "bail_fallback"
    /\ IF lastErr.set
       THEN /\ result' = FailedToRaiseError(lastErr.message)
            /\ nullRead' = nullRead
       ELSE /\ result' \in NullReadOutcomes
            /\ nullRead' = TRUE
    /\ pc' = "done"
    /\ UNCHANGED <<repoVars, envVars, lastErr, argVars, localVars, handleVars,
                   calls, revision, histVars>>

-----------------------------------------------------------------------------
(* The caller takes the outcome; the next call starts from fresh locals *)

IsResolution(fn) == fn \in {"resolve_refish", "ref_to_commit"}

Finish ==
    /\ pc = "done"
    /\ pc' = "idle"
    /\ ncalls' = ncalls + 1
    /\ prev' = IF ~prev.set /\ IsResolution(entry)
               THEN [set |-> TRUE, entry |-> entry, string |-> string,
                     result |-> result]
               ELSE prev
    /\ entry' = "none"
    /\ string' = NoSexp
    /\ err' = 0
    /\ ptr' = "valid"
    /\ what' = "none"
    /\ ref' = NoRef
    /\ obj' = "none"
    /\ peeled' = "none"
    /\ commit' = "none"
    /\ acq' = NoHandles
    /\ rel' = NoHandles
    /\ calls' = <<>>
    /\ revision' = NoResult
    /\ result' = NoResult
    /\ nullRead' = FALSE
    /\ UNCHANGED <<repoVars, envVars, lastErr, snap>>

Next ==
    \/ Call_resolve_refish
    \/ Call_ref_to_commit
    \/ Call_bail_if
    \/ Call_bail_if_null
    \/ rr_check
    \/ dwim
    \/ ref_peel
    \/ revparse
    \/ type_check
    \/ obj_peel
    \/ commit_lookup
    \/ free_revision
    \/ bail_if_null
    \/ bail_if
    \/ bail_raise
    \/ bail_fallback
    \/ Finish

Spec == Init /\ [][Next]_vars


-----------------------------------------------------------------------------
(* Vocabulary of the properties *)

Called(fn) == \E i \in 1..Len(calls) : calls[i] = fn

\* A resolution of a string has come to its end.
ResolvedString == pc = "done" /\ IsResolution(entry) /\ IsRefString(string)

\* The object a chain of tag objects starting at o ends in.
RECURSIVE TagChainEnd(_)
TagChainEnd(o) ==
    IF git_object_type(o) = "tag" THEN TagChainEnd(TagTarget(o)) ELSE o

\* The string, taken whole, names a reference whose target peels to a commit.
NamesCommitRef(str) ==
    /\ git_reference_dwim(refs, str) # NoRef
    /\ git_object_type(TagChainEnd(refs[git_reference_dwim(refs, str)])) = "commit"

\* The string asks for a peel to a kind.
RequestsPeel(str) == \E i \in 1..Len(str) : str[i] \in {"^{tree}", "^{commit}"}

\* The revision parse was made and gave an object.
ParsedObject == Called("git_revparse_single") /\ obj # "none"


-----------------------------------------------------------------------------
(* C1: a resolution ends either by returning an object of kind commit or   *)
(* by an error; resolve_refish and ref_to_commit never hand back a tag, a  *)
(* tree, a blob or no object.                                              *)
Thm_C1_CommitOrError ==
    /\ revision.status = "returned" =>
          revision.obj \in odb /\ git_object_type(revision.obj) = "commit"
    /\ pc = "done" /\ IsResolution(entry) =>
          /\ result.status \in {"returned", "error"}
          /\ result.status = "returned" =>
                result.obj \in odb /\ git_object_type(result.obj) = "commit"

\* A tag object named by its id was parsed, peeled and returned as a commit.
Wit_C1_PeeledCommit ==
    /\ pc = "done" /\ IsResolution(entry)
    /\ Called("git_object_peel")
    /\ git_object_type(obj) = "tag"
    /\ result.status = "returned"

(* C2: when the whole string names a reference whose target peels to a     *)
(* commit, the resolution returns that commit from the name lookup, which  *)
(* is the first library call, and git_revparse_single is never called.     *)
Thm_C2_LiteralNameFirst ==
    ResolvedString /\ NamesCommitRef(StrOf(string)) =>
        /\ calls[1] = "git_reference_dwim"
        /\ ~Called("git_revparse_single")
        /\ revision =
             Returned(TagChainEnd(refs[git_reference_dwim(refs, StrOf(string))]), "obj")

\* The string "c1" is the id of commit c1 and the name of a tag of commit
\* c2: the name won, where the revision parse gives c1.
Wit_C2_NameBeatsId ==
    /\ ResolvedString
    /\ StrOf(string) = <<"c1">>
    /\ git_revparse_single(refs, odb, StrOf(string)) = "c1"
    /\ revision.obj = "c2"

(* C3: when the fast path fails, at the name lookup or at the peel of the  *)
(* reference found, the resolution goes on to git_revparse_single and its  *)
(* outcome is the one the parsed object alone decides.                     *)
Thm_C3_FallbackDecides ==
    ResolvedString /\ ~NamesCommitRef(StrOf(string)) =>
        /\ Called("git_revparse_single")
        /\ LET o == git_revparse_single(refs, odb, StrOf(string)) IN
             revision =
               IF o = "none" THEN NotFoundError(StrOf(string))
               ELSE IF git_object_type(o) = "commit" THEN Returned(o, "obj")
               ELSE IF git_object_type(TagChainEnd(o)) = "commit"
                    THEN Returned(TagChainEnd(o), "peeled")
               ELSE WrongKindError(o, StrOf(string))

\* The reference was found, its peel failed, and the parse still gave a commit.
Wit_C3_PeelFailedThenParsed ==
    /\ ResolvedString
    /\ Called("git_reference_peel")
    /\ Called("git_revparse_single")
    /\ revision.status = "returned"

(* C4: a resolution leaves the references and the stored objects of the    *)
(* repository as they were when it started, on every path, and a second    *)
(* resolution of the same argument gives the outcome of the first.         *)
Thm_C4_ReadOnlyDeterministic ==
    /\ IsResolution(entry) => refs = snap.refs /\ odb = snap.odb
    /\ pc = "done" /\ IsResolution(entry) /\ prev.set
         /\ prev.entry = entry /\ prev.string = string
       => result = prev.result

\* The same string resolved a second time, on the path that frees the reference.
Wit_C4_SecondResolution ==
    /\ pc = "done" /\ IsResolution(entry) /\ prev.set
    /\ prev.entry = entry /\ prev.string = string
    /\ Called("git_reference_peel")
    /\ result.status = "returned"

(* C5: when git_revparse_single gives no object, the resolution ends in    *)
(* the not-found error carrying the string, and returns no object.         *)
Thm_C5_NotFoundCarriesString ==
    ResolvedString /\ Called("git_revparse_single") /\ obj = "none" =>
        /\ revision = NotFoundError(StrOf(string))
        /\ result = revision
        /\ result.str = StrOf(string)
        /\ result.obj = "none"

\* "c2^2" asks for a second parent that commit c2 does not have.
Wit_C5_NoSuchParent ==
    /\ ResolvedString
    /\ StrOf(string) = <<"c2", "^2">>
    /\ result.error = "NotFound"


(* C6, as claimed: when the revision parse gives an object whose kind is   *)
(* not commit and the string asks for no peel, the resolution ends in the  *)
(* wrong-kind error carrying the kind of the object and the string.        *)
Cex_C6_NonCommitIsError ==
    ResolvedString /\ ParsedObject /\ git_object_type(obj) # "commit"
        /\ ~RequestsPeel(StrOf(string))
      => revision = WrongKindError(obj, StrOf(string))

(* C6, amended: when the revision parse gives an object whose kind is not  *)
(* commit and which does not peel to a commit, and the string asks for no  *)
(* peel, the resolution ends in the wrong-kind error carrying the kind of  *)
(* the parsed object and the string; a tag object whose chain ends in a    *)
(* commit is peeled and that commit is returned.                           *)
Thm_C6_UnpeelableIsError ==
    ResolvedString /\ ParsedObject /\ git_object_type(obj) # "commit"
        /\ ~RequestsPeel(StrOf(string))
      => IF git_object_type(TagChainEnd(obj)) = "commit"
         THEN revision = Returned(TagChainEnd(obj), "peeled")
         ELSE /\ revision.status = "error"
              /\ revision.error = "WrongKind"
              /\ revision.type = git_object_type(obj)
              /\ revision.str = StrOf(string)
              /\ revision.obj = "none"
              /\ result = revision

\* "a3" is the id of a tag of a tree: the error names the kind tag.
Wit_C6_TagOfTree ==
    /\ ResolvedString
    /\ StrOf(string) = <<"a3">>
    /\ result.error = "WrongKind"
    /\ result.type = "tag"

(* C7: for every reference that points at commit c, directly or through a  *)
(* chain of tag objects, resolving the full name of the reference returns  *)
(* c and none of the tag objects.                                          *)
Thm_C7_RefResolvesToCommit ==
    \A r \in RefNames :
        ResolvedString /\ StrOf(string) = r /\ refs[r] # "none"
            /\ git_object_type(TagChainEnd(refs[r])) = "commit"
          => /\ revision.status = "returned"
             /\ revision.obj = TagChainEnd(refs[r])
             /\ entry = "resolve_refish" => result = revision

\* refs/tags/main is a tag of a tag of commit c2.
Wit_C7_TagOfTagOfCommit ==
    /\ ResolvedString
    /\ StrOf(string) = TagsMain
    /\ refs[TagsMain] = "a2"
    /\ TagTarget(TagTarget("a2")) = "c2"
    /\ revision.obj = "c2"

(* C8, as claimed: resolving "<commit id>^{tree}" returns the root tree of *)
(* that commit.                                                            *)
Cex_C8_TreeReturned ==
    ResolvedString /\ Len(StrOf(string)) = 2
        /\ git_object_type(StrOf(string)[1]) = "commit"
        /\ StrOf(string)[2] = "^{tree}"
      => /\ revision.status = "returned"
         /\ revision.obj = CommitTree(StrOf(string)[1])

(* C8, amended: resolving "<commit id>^{tree}" ends in the wrong-kind      *)
(* error carrying the kind tree and the string; the tree is not returned,  *)
(* a peel suffix does not change that only a commit is returned.           *)
Thm_C8_TreeIsWrongKind ==
    ResolvedString /\ Len(StrOf(string)) = 2
        /\ git_object_type(StrOf(string)[1]) = "commit"
        /\ StrOf(string)[2] = "^{tree}"
      => /\ obj = CommitTree(StrOf(string)[1])
         /\ revision = WrongKindError(obj, StrOf(string))
         /\ revision.type = "tree"
         /\ result = revision

\* "c2^{tree}" was parsed to the tree t1 and refused.
Wit_C8_TreeRefused ==
    /\ ResolvedString
    /\ StrOf(string) = <<"c2", "^{tree}">>
    /\ obj = "t1"
    /\ result.error = "WrongKind"

(* C9: when a call ends, every handle it acquired was acquired once and    *)
(* has been released exactly once, except the one handed to the caller,    *)
(* which has not been released.                                            *)
Cex_C9_HandlesBalanced ==
    pc = "done" =>
        \A h \in Slots :
            /\ acq[h] <= 1
            /\ IF result.status = "returned" /\ result.handle = h
               THEN acq[h] = 1 /\ rel[h] = 0
               ELSE rel[h] = acq[h]

(* C10: bail_if returns normally exactly when err is 0; otherwise it ends  *)
(* by raising an error; with no last-error record the error carries the    *)
(* message "Unknown error message" and the class NA, and no field of the   *)
(* absent record is read.  bail_if_null does the same with err -1 for a    *)
(* NULL ptr and returns normally otherwise.                                *)
Cex_C10_BailIf ==
    pc = "done" /\ entry \in {"bail_if", "bail_if_null"} =>
        /\ result.status = "returned" <=>
              IF entry = "bail_if" THEN err = 0 ELSE ptr # "NULL"
        /\ result.status # "returned" =>
              /\ result.status = "error"
              /\ entry = "bail_if_null" => err = -1
              /\ ~lastErr.set =>
                    /\ result.message = "Unknown error message"
                    /\ result.klass = "NA"
        /\ ~nullRead

=============================================================================
